---- MODULE Spec2Model ----
(***************************************************************************)
(* Model of the raw-waveform codec of RawData/raw.cxx: zero suppression    *)
(* (with and without neighbour merging), its inverse, the delta            *)
(* ("Huffman") bit code and its inverse, and the Compress / Uncompress     *)
(* dispatchers.                                                            *)
(*                                                                         *)
(* std::vector<short> is a sequence of integers in -32768..32767; code     *)
(* index i is sequence position i+1.  Every function of the source is an   *)
(* operator that computes as the code computes and returns a record        *)
(* holding the buffer it leaves behind and a flag `ub` that is TRUE when   *)
(* the call read or wrote a vector outside its bounds.  A read outside the *)
(* bounds yields a value taken from the oracle `o` (whatever the memory    *)
(* holds); a write outside the bounds lands outside the vector, so that    *)
(* the vector never shows it (a later growing resize value-initialises the *)
(* new elements); the calling action additionally lets such a call abort.  *)
(*                                                                         *)
(* The module also models the configuration object of                      *)
(* lardata/Utilities/SignalShaping.cxx: `shaping` holds the fields of one  *)
(* util::SignalShaping object and `sscall` the last call made on it and    *)
(* how it ended.  That object has a specification of its own,              *)
(* ShapingSpec, in which the codec is at rest.                             *)
(***************************************************************************)
EXTENDS Integers, Sequences, FiniteSets, TLC

VARIABLES W, adc, uncompressed, buf0, pc, call, umode, status, ub, warned,
          hlog, hufftmp, shaping, sscall

vars == <<W, adc, uncompressed, buf0, pc, call, umode, status, ub, warned,
          hlog, hufftmp, shaping, sscall>>

(***************************************************************************)
(* Bounds of the model.                                                    *)
(***************************************************************************)
MaxLen == 5
MaxOut == 2

\* sample values of the enumerated waveforms
Vals == {-6, 0, 1, 3}

\* contents of a vector cell outside the vector (heap garbage)
Garbage == {0, 9}

Oracles == [g1 : Garbage, g2 : Garbage]

o0 == [g1 |-> 0, g2 |-> 0]

\* zero-suppression thresholds and neighbour distances of the calls
Thresholds == {3, 5}
NNs == {0, 1, 3}

\* what a caller's output buffer holds before the call
Fill == {0, 7}

\* waveforms beyond the enumerated ones: the pulse train of the block-shape
\* examples, a late pulse, a flat run, a ramp, large jumps, and samples at
\* the ends of the 16-bit range
Extras ==
  { <<0, 0, 0, 6, 7, 0, 0, 0, 9, 0, 0>>,
    <<0, 0, 0, 0, 0, 0, 6, 5>>,
    <<4, 4, 4, 4, 4, 4, 4>>,
    <<1, 2, 3, 4, 5, 6, 7>>,
    <<0, 10, 20, 30>>,
    <<0, 20000>>,
    <<32767, -32768>>,
    <<32767, -32767>>,
    <<6, 0, 0, 0, 0, 0, 0, 0, 0, 6, 0, 0, 0, 0, 0>>,
    <<5, -32768, 7>> }

Waveforms == UNION {[1..n -> Vals] : n \in 0..MaxLen} \cup Extras

(***************************************************************************)
(* 16-bit arithmetic.                                                      *)
(***************************************************************************)
Abs(x) == IF x < 0 THEN -x ELSE x

\* conversion of an int to short (two's complement, low 16 bits)
ToShort(x) == LET u == x % 65536 IN IF u >= 32768 THEN u - 65536 ELSE u

\* std::bitset<16>(x): the low 16 bits of x as an unsigned number
Bits16(x) == x % 65536

\* bitset::test(k)
Test(u, k) == (u \div (2^k)) % 2 = 1

\* bitset::set(k)
SetBit(u, k) == IF Test(u, k) THEN u ELSE u + 2^k

\* bitset::set(k, false)
ClearBit(u, k) == IF Test(u, k) THEN u - 2^k ELSE u

\* std::vector::resize(n): truncates, or appends value-initialised elements
Resize(s, n) == [k \in 1..n |-> IF k <= Len(s) THEN s[k] ELSE 0]

\* v[idx] = val; a write outside the vector does not show in the vector
Store(s, idx, val) ==
  IF idx >= 0 /\ idx < Len(s) THEN [s EXCEPT ![idx + 1] = val] ELSE s

InRange(s, idx) == idx >= 0 /\ idx < Len(s)

\* v[idx] read; outside the vector the memory holds what the oracle says
Load(s, idx, o) ==
  IF InRange(s, idx) THEN s[idx + 1]
  ELSE IF idx = Len(s) THEN o.g1 ELSE o.g2

(***************************************************************************)
(* CompressHuffman                                                         *)
(***************************************************************************)
\* diffs[i]: short difference of successive samples, garbage beyond the end
Diff(a, i, o) ==
  IF i = 0 THEN 0
  ELSE IF i < Len(a) THEN ToShort(a[i + 1] - a[i])
  ELSE IF i = Len(a) THEN o.g1 ELSE o.g2

\* adc[cur] = bset.to_ulong(); ++cur; and a fresh accumulator holding bit 15
\* and the given bits
Flush(st, top) ==
  [st EXCEPT !.out = Store(st.out, st.cur, ToShort(st.bset)),
             !.ub = st.ub \/ ~InRange(st.out, st.cur),
             !.cur = st.cur + 1,
             !.bset = top,
             !.curb = 15]

\* a code of the given width: one set bit `width` places below the cursor,
\* or, when it does not fit, the accumulator is flushed and the code is the
\* first of a new word
PutCode(st, width) ==
  IF st.curb > width - 1
  THEN [st EXCEPT !.curb = st.curb - width,
                  !.bset = SetBit(st.bset, st.curb - width)]
  ELSE [Flush(st, 32768 + 2^(15 - width)) EXCEPT !.curb = 15 - width]

\* width of the code of a difference in -3..3 that is not a run of four zeros
CodeWidth(d) ==
  CASE d = 0 -> 2 [] d = 1 -> 3 [] d = -1 -> 4 [] d = 2 -> 5
    [] d = -2 -> 6 [] d = 3 -> 7 [] d = -3 -> 8

\* a literal word that takes 0 for a positive value
LiteralWordZeroPlain(v) == IF v >= 0 THEN v ELSE ToShort(SetBit(Bits16(-v), 14))

\* the literal word of sample v: v itself when positive, else -v with bit 14
LiteralWord(v) == IF v > 0 THEN v ELSE ToShort(SetBit(Bits16(-v), 14))

\* adc[cur] = literal; ++cur
StoreLiteral(st, v) ==
  [st EXCEPT !.out = Store(st.out, st.cur, LiteralWord(v)),
             !.ub = st.ub \/ ~InRange(st.out, st.cur),
             !.cur = st.cur + 1,
             !.bset = 32768,
             !.curb = 15]

\* lines 347-369: the accumulator is written out first unless it is empty
PutLiteral(st, v) ==
  StoreLiteral(IF st.curb # 15 THEN Flush(st, 32768) ELSE st, v)

\* i < diffs.size() - 3, computed in unsigned arithmetic
CanCheckNext3(i, n) == IF n < 3 THEN TRUE ELSE i < n - 3

\* diffs[i+1] == 0 && diffs[i+2] == 0 && diffs[i+3] == 0
Next3Zero(a, i, o) ==
  Diff(a, i + 1, o) = 0 /\ Diff(a, i + 2, o) = 0 /\ Diff(a, i + 3, o) = 0

\* the read of diffs[i+1] leaves the vector; rd keeps that apart from the
\* writes that leave adc
ReadPast(st, a, i) ==
  [st EXCEPT !.ub = st.ub \/ i + 1 >= Len(a), !.rd = st.rd \/ i + 1 >= Len(a)]

RECURSIVE HuffmanEncodeLoop(_, _, _, _)
HuffmanEncodeLoop(a, o, i, st) ==
  IF i >= Len(a) THEN st
  ELSE IF Abs(Diff(a, i, o)) > 3
  THEN HuffmanEncodeLoop(a, o, i + 1, PutLiteral(st, a[i + 1]))
  ELSE IF Diff(a, i, o) = 0 /\ CanCheckNext3(i, Len(a))
  THEN IF Next3Zero(a, i, o)
       THEN HuffmanEncodeLoop(a, o, i + 4, PutCode(ReadPast(st, a, i), 1))
       ELSE HuffmanEncodeLoop(a, o, i + 1, PutCode(ReadPast(st, a, i), 2))
  ELSE HuffmanEncodeLoop(a, o, i + 1, PutCode(st, CodeWidth(Diff(a, i, o))))

\* adc.resize(cur)
HuffmanResize(fin) ==
  [adc |-> Resize(fin.out, fin.cur), ub |-> fin.ub, words |-> fin.cur,
   rd |-> fin.rd]

CompressHuffman(a, o) ==
  HuffmanResize(
    Flush(HuffmanEncodeLoop(a, o, 1,
            [out |-> a, cur |-> 1, curb |-> 15, bset |-> 32768,
             ub |-> Len(a) = 0, rd |-> FALSE]),
          32768))

(***************************************************************************)
(* UncompressHuffman                                                       *)
(***************************************************************************)
\* a decoder that sees the end of the buffer one sample late
BufferFullLate(st) == st.curu > Len(st.out)

\* curu > uncompressed.size() - 1, computed in unsigned arithmetic
BufferFull(st) == IF Len(st.out) = 0 THEN FALSE ELSE st.curu > Len(st.out) - 1

\* uncompressed[curu] = curADC; ++curu;  the write is logged with its
\* position and the running value
Emit(st, v) ==
  [st EXCEPT !.curADC = v,
             !.out = Store(st.out, st.curu, v),
             !.ub = st.ub \/ ~InRange(st.out, st.curu),
             !.log = Append(st.log, [pos |-> st.curu, cur |-> v]),
             !.curu = st.curu + 1]

\* lowest set bit of the word among bits 0..14, 15 when there is none
RECURSIVE LowestBit(_, _)
LowestBit(u, lowestb) ==
  IF ~Test(u, lowestb) /\ lowestb < 15 THEN LowestBit(u, lowestb + 1)
  ELSE lowestb

\* number of zero bits from bit b downwards before the next set bit,
\* never going below lowestb
RECURSIVE ZeroCount(_, _, _, _)
ZeroCount(u, b, lowestb, zerocnt) ==
  IF ~Test(u, b - zerocnt) /\ b - zerocnt > lowestb
  THEN ZeroCount(u, b, lowestb, zerocnt + 1)
  ELSE zerocnt

\* one more of the up-to-four repeats of the 1-bit code
RECURSIVE RepeatFour(_, _)
RepeatMore(e, s) == IF BufferFull(e) THEN e ELSE RepeatFour(e, s + 1)

\* the 1-bit code: the running value up to four times, stopping when the
\* output buffer is full
RepeatFour(st, s) == IF s >= 4 THEN st ELSE RepeatMore(Emit(st, st.curADC), s)

\* difference coded by a gap of zerocnt zero bits (1..7)
Delta(zerocnt) ==
  CASE zerocnt = 1 -> 0 [] zerocnt = 2 -> 1 [] zerocnt = 3 -> -1
    [] zerocnt = 4 -> 2 [] zerocnt = 5 -> -2 [] zerocnt = 6 -> 3
    [] zerocnt = 7 -> -3

\* the samples of one code, lines 587-643
DecodeCode(zerocnt, st) ==
  IF zerocnt = 0 THEN RepeatFour(st, 0)
  ELSE IF zerocnt <= 7 THEN Emit(st, ToShort(st.curADC + Delta(zerocnt)))
  ELSE st

\* b after the code: b -= zerocnt, and --b in the branches that decode
AfterCode(b, zerocnt) == IF zerocnt <= 7 THEN b - zerocnt - 1 ELSE b - zerocnt

\* the loop over the bits of one coded word
RECURSIVE DecodeBits(_, _, _, _)
DecodeNextCode(u, lowestb, b, s1) ==
  IF BufferFull(s1) THEN s1 ELSE DecodeBits(u, lowestb, b, s1)

DecodeAt(u, lowestb, b, zerocnt, st) ==
  DecodeNextCode(u, lowestb, AfterCode(b, zerocnt), DecodeCode(zerocnt, st))

DecodeBits(u, lowestb, b, st) ==
  IF b < lowestb THEN st
  ELSE DecodeAt(u, lowestb, b, ZeroCount(u, b, lowestb, 0), st)

\* a word with bit 15 clear: the sample, negated when bit 14 is set
\* a literal taken without its sign flag
LiteralUnsigned(u) == ToShort(ClearBit(u, 14))

Literal(u) == IF Test(u, 14) THEN ToShort(-ClearBit(u, 14)) ELSE ToShort(u)

\* the loop over the words of adc
RECURSIVE DecodeWords(_, _, _)
DecodeNextWord(a, i, s1) ==
  IF BufferFull(s1) THEN s1 ELSE DecodeWords(a, i + 1, s1)

DecodeWord(a, i, u, st) ==
  IF ~Test(u, 15) THEN DecodeWords(a, i + 1, Emit(st, Literal(u)))
  ELSE IF LowestBit(u, 0) > 14
  THEN \* mf::LogWarning("raw.cxx") ...; continue;
       DecodeWords(a, i + 1, [st EXCEPT !.warn = TRUE])
  ELSE DecodeNextWord(a, i, DecodeBits(u, LowestBit(u, 0), 14, st))

DecodeWords(a, i, st) ==
  IF ~(i < Len(a) /\ st.curu < Len(st.out)) THEN st
  ELSE DecodeWord(a, i, Bits16(a[i + 1]), st)

\* uncompressed[0] = adc[0]; curu = 1; curADC = uncompressed[0]
DecodeStart(a, unc, first) ==
  [out |-> Store(unc, 0, first), curu |-> 1, curADC |-> first,
   ub |-> Len(a) = 0 \/ Len(unc) = 0, warn |-> FALSE,
   log |-> <<[pos |-> 0, cur |-> first]>>]

DecodeResult(st) ==
  [out |-> st.out, ub |-> st.ub, throw |-> FALSE, warn |-> st.warn,
   log |-> st.log, tmp |-> st.out]

UncompressHuffman(a, unc, o) ==
  DecodeResult(DecodeWords(a, 1, DecodeStart(a, unc, Load(a, 0, o))))

(***************************************************************************)
(* ZeroSuppression(adc, zerothreshold): no merging                         *)
(***************************************************************************)
\* a vector of n value-initialised shorts
Zeros(n) == [k \in 1..n |-> 0]

\* v[idx] = val with the out-of-bounds flag of the record kept up to date
SetIn(st, field, idx, val) ==
  [st EXCEPT ![field] = Store(st[field], idx, val),
             !.ub = st.ub \/ ~InRange(st[field], idx)]

\* a block opened one entry further on in the block arrays
OpenIfClosedNext(st, i) ==
  IF st.blockcheck = 0
  THEN [SetIn(SetIn(st, "blockbegin", st.nblocks + 1, ToShort(i)),
              "blocksize", st.nblocks + 1, 0)
          EXCEPT !.blockcheck = 1]
  ELSE st

\* blockbegin[nblocks] = i; blocksize[nblocks] = 0; blockcheck = 1, when no
\* block is open
OpenIfClosed(st, i) ==
  IF st.blockcheck = 0
  THEN [SetIn(SetIn(st, "blockbegin", st.nblocks, ToShort(i)),
              "blocksize", st.nblocks, 0)
          EXCEPT !.blockcheck = 1]
  ELSE st

\* zerosuppressed[zerosuppressedsize] = adc[i]; zerosuppressedsize++;
\* blocksize[nblocks]++
KeepSample(st, x) ==
  [SetIn(SetIn(st, "zerosuppressed", st.zerosuppressedsize, x),
         "blocksize", st.nblocks,
         ToShort(Load(st.blocksize, st.nblocks, o0) + 1))
     EXCEPT !.zerosuppressedsize = st.zerosuppressedsize + 1]

\* a scan that does not count a block still open at the last sample
CountIfLastNever(st, i, n) == st

\* if(i == adcsize-1) nblocks++
CountIfLast(st, i, n) ==
  IF i = n - 1 THEN [st EXCEPT !.nblocks = st.nblocks + 1] ELSE st

\* lines 111-125
ActiveSample(st, x, thr, i, n) ==
  IF Abs(x) > thr THEN CountIfLast(KeepSample(OpenIfClosed(st, i), x), i, n)
  ELSE st

\* a scan that closes a block without keeping the sample that closes it
ClosingSampleDropped(st, x, thr) ==
  IF Abs(x) <= thr /\ st.blockcheck = 1
  THEN [st EXCEPT !.nblocks = st.nblocks + 1, !.blockcheck = 0]
  ELSE st

\* lines 127-133
ClosingSample(st, x, thr) ==
  IF Abs(x) <= thr /\ st.blockcheck = 1
  THEN [KeepSample(st, x) EXCEPT !.nblocks = st.nblocks + 1,
                                 !.blockcheck = 0]
  ELSE st

\* the scan of lines 108-134: the working arrays after samples i..N-1
RECURSIVE ScanBlocks(_, _, _, _)
ScanBlocks(a, thr, i, st) ==
  IF i >= Len(a) THEN st
  ELSE ScanBlocks(a, thr, i + 1,
         ClosingSample(ActiveSample(st, a[i + 1], thr, i, Len(a)),
                       a[i + 1], thr))

\* the working arrays of ZeroSuppression(adc, zerothreshold) after its scan
ZeroSuppressionScan(a, thr) ==
  ScanBlocks(a, thr, 0,
             [blockbegin |-> Zeros(Len(a) \div 2 + 1),
              blocksize |-> Zeros(Len(a) \div 2 + 1),
              zerosuppressed |-> Zeros(Len(a)),
              nblocks |-> 0, zerosuppressedsize |-> 0, blockcheck |-> 0,
              ub |-> FALSE])

\* a run of in-place writes adc[w[1]] = w[2], in order
RECURSIVE WriteAll(_, _, _)
WriteAll(st, ws, k) ==
  IF k > Len(ws) THEN st
  ELSE WriteAll(SetIn(st, "adc", ws[k][1], ws[k][2]), ws, k + 1)

\* the header, the block starts, the block lengths and the samples, as the
\* writes of lines 136-146 (and 239-249) make them
Layout(n, nblocks, blockbegin, blocksize, samples, nsamples) ==
  <<<<0, ToShort(n)>>, <<1, ToShort(nblocks)>>>>
  \o [i \in 1..nblocks |-> <<i + 1, blockbegin[i]>>]
  \o [i \in 1..nblocks |-> <<i + nblocks + 1, blocksize[i]>>]
  \o [i \in 1..nsamples |-> <<i + 2 * nblocks + 1, samples[i]>>]

\* adc.resize(n)
Resized(wr, n) == [adc |-> Resize(wr.adc, n), ub |-> wr.ub]

\* lines 136-149 on the working arrays sc of the scan
WriteEncoding(a, sc) ==
  Resized(WriteAll([adc |-> a, ub |-> sc.ub],
                   Layout(Len(a), sc.nblocks, sc.blockbegin, sc.blocksize,
                          sc.zerosuppressed, sc.zerosuppressedsize),
                   1),
          2 + 2 * sc.nblocks + sc.zerosuppressedsize)

ZeroSuppression(a, thr) == WriteEncoding(a, ZeroSuppressionScan(a, thr))

(***************************************************************************)
(* ZeroSuppression(adc, zerothreshold, nearestneighbor): merging           *)
(***************************************************************************)
\* blocksize[nblocks] = i - blockbegin[nblocks] + 1; blockstartcheck = 1
SizeToHere(st, i, o) ==
  [SetIn(st, "blocksize", st.nblocks,
         ToShort(i - Load(st.blockbegin, st.nblocks, o) + 1))
     EXCEPT !.blockstartcheck = 1]

\* blockbegin[nblocks] = max(i - nearestneighbor, 0), and its size
OpenBlock(st, i, nn, o) ==
  SizeToHere(SetIn(st, "blockbegin", st.nblocks,
                   ToShort(IF i - nn > 0 THEN i - nn ELSE 0)),
             i, o)

\* a re-opening that does not step back to the previous block
ReopenBlockForward(st, i, o) == SizeToHere(st, i, o)

\* nblocks--, and the previous block extended to sample i
ReopenBlock(st, i, o) ==
  SizeToHere([st EXCEPT !.nblocks = st.nblocks - 1], i, o)

\* blocksize[nblocks]++
GrowBlock(st, o) ==
  SetIn(st, "blocksize", st.nblocks,
        ToShort(Load(st.blocksize, st.nblocks, o) + 1))

\* std::abs(adc[i+1]) <= thr || std::abs(adc[i+2]) <= thr
LookAhead(a, thr, i, o) ==
  Abs(Load(a, i + 1, o)) <= thr \/ Abs(Load(a, i + 2, o)) <= thr

\* a look-ahead that is taken to stay inside adc
LookAheadPastNever(a, thr, i, o) == FALSE

\* the look-ahead reads adc[i+1], and adc[i+2] when adc[i+1] is active
LookAheadPast(a, thr, i, o) ==
  ~InRange(a, i + 1) \/ (Abs(Load(a, i + 1, o)) > thr /\ ~InRange(a, i + 2))

\* lines 211-215; la keeps the reads beyond adc apart from the accesses
\* beyond the working arrays, which ub holds
CloseIfQuiet(st, a, thr, i, o) ==
  IF LookAhead(a, thr, i, o)
  THEN [st EXCEPT !.la = st.la \/ LookAheadPast(a, thr, i, o),
                  !.endofblockcheck = 0,
                  !.blockstartcheck = 0,
                  !.nblocks = st.nblocks + 1]
  ELSE [st EXCEPT !.la = st.la \/ LookAheadPast(a, thr, i, o)]

\* lines 179-199: no block is open
SampleOutside(st, x, thr, nn, i, o) ==
  IF Abs(x) > thr
  THEN IF st.nblocks > 0
       THEN IF i - nn <= Load(st.blockbegin, st.nblocks - 1, o)
                         + Load(st.blocksize, st.nblocks - 1, o) + 1
            THEN ReopenBlock(st, i, o)
            ELSE OpenBlock(st, i, nn, o)
       ELSE OpenBlock(st, i, nn, o)
  ELSE st

\* lines 200-219: a block is open
SampleInside(st, a, thr, nn, i, o) ==
  IF Abs(a[i + 1]) > thr
  THEN [GrowBlock(st, o) EXCEPT !.endofblockcheck = 0]
  ELSE IF st.endofblockcheck < nn
  THEN [GrowBlock(st, o) EXCEPT !.endofblockcheck = st.endofblockcheck + 1]
  ELSE CloseIfQuiet(st, a, thr, i, o)

\* the scan of lines 176-220
RECURSIVE ScanMerged(_, _, _, _, _, _)
ScanMerged(a, thr, nn, o, i, st) ==
  IF i >= Len(a) THEN st
  ELSE IF st.blockstartcheck = 0
  THEN ScanMerged(a, thr, nn, o, i + 1,
                  SampleOutside(st, a[i + 1], thr, nn, i, o))
  ELSE ScanMerged(a, thr, nn, o, i + 1, SampleInside(st, a, thr, nn, i, o))

\* the working arrays of the merging ZeroSuppression after its scan
ZeroSuppressionNNScan(a, thr, nn, o) ==
  ScanMerged(a, thr, nn, o, 0,
             [blockbegin |-> Zeros(Len(a) \div 2 + 1),
              blocksize |-> Zeros(Len(a) \div 2 + 1),
              nblocks |-> 0, blockstartcheck |-> 0, endofblockcheck |-> 0,
              ub |-> FALSE, la |-> FALSE])

\* sum of blocksize[0 .. nblocks-1]
RECURSIVE SumSizes(_, _)
SumSizes(blocksize, nblocks) ==
  IF nblocks <= 0 THEN 0
  ELSE SumSizes(blocksize, nblocks - 1) + blocksize[nblocks]

\* adc[idx] read after adc.resize(): an index the resize cut off still holds
\* the old sample
LoadResized(a, r, idx, o) ==
  IF InRange(r, idx) THEN r[idx + 1] ELSE Load(a, idx, o)

\* the samples of one block, read from the resized adc r
BlockSamples(a, r, bb, bs, o) ==
  [samples |-> [j \in 1..bs |-> LoadResized(a, r, bb + j - 1, o)],
   ub |-> \E j \in 1..bs : ~InRange(r, bb + j - 1)]

AddBlock(acc, blk) ==
  [samples |-> acc.samples \o blk.samples, ub |-> acc.ub \/ blk.ub]

\* lines 230-237: the samples of blocks i.. , read from the resized adc
RECURSIVE CollectBlocks(_, _, _, _, _, _)
CollectBlocks(a, r, sc, o, i, acc) ==
  IF i >= sc.nblocks THEN acc
  ELSE CollectBlocks(a, r, sc, o, i + 1,
         AddBlock(acc, BlockSamples(a, r, sc.blockbegin[i + 1],
                                    sc.blocksize[i + 1], o)))

\* lines 239-249 on the resized adc r
WriteMerged(a, r, sc, col) ==
  WriteAll([adc |-> r, ub |-> col.ub],
           Layout(Len(a), sc.nblocks, sc.blockbegin, sc.blocksize,
                  col.samples, Len(col.samples)),
           1)

\* lines 226-249: r is adc after adc.resize(2+nblocks+nblocks+size)
CollectAndWrite(a, r, sc, o) ==
  WriteMerged(a, r, sc,
              CollectBlocks(a, r, sc, o, 0,
                            [samples |-> <<>>, ub |-> sc.ub \/ sc.la]))

\* lines 222-249 on the working arrays sc of the scan
WriteMergedEncoding(a, sc, o) ==
  CollectAndWrite(a,
    Resize(a, 2 + 2 * sc.nblocks + SumSizes(sc.blocksize, sc.nblocks)),
    sc, o)

ZeroSuppressionNN(a, thr, nn, o) ==
  WriteMergedEncoding(a, ZeroSuppressionNNScan(a, thr, nn, o), o)

(***************************************************************************)
(* ZeroUnsuppression                                                       *)
(***************************************************************************)
\* the block copy reads or writes outside a vector
BlockPast(a, out, begin, n, idx) ==
  \E j \in 0..(n - 1) : ~InRange(a, idx + j) \/ ~InRange(out, begin + j)

\* lines 274-280 for one block of n samples starting at begin
CopyBlock(a, o, st, begin, n, idx) ==
  [out |-> [k \in 1..Len(st.out) |->
              IF k - 1 >= begin /\ k - 1 < begin + n
              THEN Load(a, idx + (k - 1 - begin), o)
              ELSE st.out[k]],
   ub |-> st.ub \/ BlockPast(a, st.out, begin, n, idx)]

\* the loop bound adc[2+nblocks+i] as a number of iterations
Iterations(size) == IF size > 0 THEN size ELSE 0

\* lines 272-281: block i onwards; idx is zerosuppressedindex
RECURSIVE UnsuppressBlocks(_, _, _, _, _, _)
UnsuppressBlocks(a, o, nblocks, i, idx, st) ==
  IF i >= nblocks THEN st
  ELSE IF ~InRange(a, 2 + nblocks + i)
  THEN \* the block table runs off the encoding: from here on the loop is
       \* driven by whatever the memory holds
       [st EXCEPT !.ub = TRUE]
  ELSE UnsuppressBlocks(a, o, nblocks, i + 1,
         idx + Iterations(a[3 + nblocks + i]),
         CopyBlock(a, o, st, a[3 + i], Iterations(a[3 + nblocks + i]), idx))

UnsuppressResult(st) ==
  [out |-> st.out, ub |-> st.ub, throw |-> FALSE, warn |-> FALSE,
   log |-> <<>>, tmp |-> <<>>]

\* an un-suppression that resizes the output and does not clear it
UnsuppressFromNoClear(a, unc, o, lengthofadc, nblocks) ==
  IF lengthofadc < 0
  THEN [out |-> unc, ub |-> Len(a) < 2, throw |-> TRUE, warn |-> FALSE,
        log |-> <<>>, tmp |-> <<>>]
  ELSE UnsuppressResult(
         UnsuppressBlocks(a, o, nblocks, 0, 2 * nblocks + 2,
                          [out |-> Resize(unc, lengthofadc), ub |-> Len(a) < 2]))

\* lines 262-283 with lengthofadc and nblocks read
UnsuppressFrom(a, unc, o, lengthofadc, nblocks) ==
  IF lengthofadc < 0
  THEN \* resize() to a negative length throws std::length_error
       [out |-> unc, ub |-> Len(a) < 2, throw |-> TRUE, warn |-> FALSE,
        log |-> <<>>, tmp |-> <<>>]
  ELSE UnsuppressResult(
         UnsuppressBlocks(a, o, nblocks, 0, 2 * nblocks + 2,
                          [out |-> Zeros(lengthofadc), ub |-> Len(a) < 2]))

ZeroUnsuppression(a, unc, o) ==
  UnsuppressFrom(a, unc, o, Load(a, 0, o), Load(a, 1, o))

(***************************************************************************)
(* Compress (four overloads) and Uncompress                                *)
(***************************************************************************)
kNone == "kNone"
kHuffman == "kHuffman"
kZeroSuppression == "kZeroSuppression"
kZeroHuffman == "kZeroHuffman"
\* a value of raw::Compress_t that the dispatchers do not name
kOther == "kOther"

Modes == {kNone, kHuffman, kZeroSuppression, kZeroHuffman, kOther}

\* the buffer and the out-of-bounds flag of a CompressHuffman call
Coded(h, before) == [adc |-> h.adc, ub |-> before \/ h.ub]

\* CompressHuffman applied to the buffer a zero suppression left
ThenHuffman(z, o) == Coded(CompressHuffman(z.adc, o), z.ub)

\* an unnamed mode taken for zero suppression
UntouchedSuppressed(a) == ZeroSuppression(a, 5)

\* no branch taken: adc is left as it is
Untouched(a) == [adc |-> a, ub |-> FALSE]

\* Compress(adc, compress)
Compress(a, compress, o) ==
  IF compress = kHuffman THEN Coded(CompressHuffman(a, o), FALSE)
  ELSE IF compress = kZeroHuffman THEN ThenHuffman(ZeroSuppression(a, 5), o)
  ELSE IF compress = kZeroSuppression THEN ZeroSuppression(a, 5)
  ELSE Untouched(a)

\* Compress(adc, compress, nearestneighbor)
CompressNN(a, compress, nn, o) ==
  IF compress = kHuffman THEN Coded(CompressHuffman(a, o), FALSE)
  ELSE IF compress = kZeroHuffman
  THEN ThenHuffman(ZeroSuppressionNN(a, 5, nn, o), o)
  ELSE IF compress = kZeroSuppression THEN ZeroSuppressionNN(a, 5, nn, o)
  ELSE Untouched(a)

\* Compress(adc, compress, zerothreshold)
CompressThr(a, compress, thr, o) ==
  IF compress = kHuffman THEN Coded(CompressHuffman(a, o), FALSE)
  ELSE IF compress = kZeroSuppression THEN ZeroSuppression(a, thr)
  ELSE IF compress = kZeroHuffman THEN ThenHuffman(ZeroSuppression(a, thr), o)
  ELSE Untouched(a)

\* Compress(adc, compress, zerothreshold, nearestneighbor)
CompressThrNN(a, compress, thr, nn, o) ==
  IF compress = kHuffman THEN Coded(CompressHuffman(a, o), FALSE)
  ELSE IF compress = kZeroSuppression THEN ZeroSuppressionNN(a, thr, nn, o)
  ELSE IF compress = kZeroHuffman
  THEN ThenHuffman(ZeroSuppressionNN(a, thr, nn, o), o)
  ELSE Untouched(a)

\* for(i < adc.size()) uncompressed[i] = adc[i]
CopyOut(a, unc) ==
  [out |-> [k \in 1..Len(unc) |-> IF k <= Len(a) THEN a[k] ELSE unc[k]],
   ub |-> Len(a) > Len(unc), throw |-> FALSE, warn |-> FALSE, log |-> <<>>,
   tmp |-> <<>>]

\* the result of the two steps of the kZeroHuffman branch: h is what
\* UncompressHuffman returned, z what ZeroUnsuppression returned
BothSteps(h, z) ==
  [out |-> z.out, ub |-> h.ub \/ z.ub, throw |-> z.throw, warn |-> h.warn,
   log |-> h.log, tmp |-> h.out]

\* lines 297-298: UncompressHuffman(adc, uncompressed);
\*                ZeroUnsuppression(adc, uncompressed);
HuffmanThenUnsuppress(a, h, o) == BothSteps(h, ZeroUnsuppression(a, h.out, o))

\* an unknown mode passed over in silence, as Compress does
UnsupportedSilent(unc) ==
  [out |-> unc, ub |-> FALSE, throw |-> FALSE, warn |-> FALSE, log |-> <<>>,
   tmp |-> <<>>]

\* throw cet::exception("raw")
Unsupported(unc) ==
  [out |-> unc, ub |-> FALSE, throw |-> TRUE, warn |-> FALSE, log |-> <<>>,
   tmp |-> <<>>]

\* Uncompress(adc, uncompressed, compress); tmp is the output buffer as the
\* Huffman step leaves it
Uncompress(a, unc, compress, o) ==
  IF compress = kHuffman THEN UncompressHuffman(a, unc, o)
  ELSE IF compress = kZeroSuppression THEN ZeroUnsuppression(a, unc, o)
  ELSE IF compress = kZeroHuffman
  THEN HuffmanThenUnsuppress(a, UncompressHuffman(a, unc, o), o)
  ELSE IF compress = kNone THEN CopyOut(a, unc)
  ELSE Unsupported(unc)

(***************************************************************************)
(* util::SignalShaping.  The object holds a time-domain response, its      *)
(* transform (the convolution kernel), a frequency-domain filter, the      *)
(* deconvolution kernel and two lock flags.  The transform service         *)
(* (util::LArFFT) is used at size FFTSize = 2, where the transform of      *)
(* <<a, b>> is <<a + b, a - b>> and a shift by t ticks multiplies the      *)
(* second coefficient by (-1)^t.  Amplitudes (double and TComplex) are     *)
(* taken in the field of three elements, written -1, 0, 1: sums, products  *)
(* and quotients are exact there and the transform and its inverse undo    *)
(* each other; NotFinite stands for the quotient by zero.                  *)
(***************************************************************************)
FFTSize == 2

\* longest vector a caller hands to AddResponseFunction / AddFilterFunction
MaxResp == 3

NotFinite == 2

Amps == {-1, 0, 1}

Bal(x) == ((x + 1) % 3) - 1

Times(x, y) ==
  IF x = NotFinite \/ y = NotFinite THEN NotFinite ELSE Bal(x * y)

\* x / y: the inverse of 1 is 1 and the inverse of -1 is -1
Over(x, y) ==
  IF x = NotFinite \/ y = NotFinite \/ y = 0 THEN NotFinite ELSE Bal(x * y)

DoFFT(r) == <<Bal(r[1] + r[2]), Bal(r[1] - r[2])>>

\* half of x is -x in the field of three elements
DoInvFFT(k) == <<Bal(-(k[1] + k[2])), Bal(-(k[1] - k[2]))>>

ShiftData(k, ticks) ==
  <<k[1], IF ticks % 2 = 1 THEN Bal(-k[2]) ELSE k[2]>>

\* the tick PeakCorrelation may report
Peaks == 0..(FFTSize - 1)

\* the ticks a caller asks for
Ticks == 0..(FFTSize - 1)

\* the vectors a caller hands in
Inputs == UNION {[1..n -> Amps] : n \in 0..MaxResp}

\* the values an int holds: fDeconvKernelPolarity is tested for > 0 only
Polarities == {-1, 0, 1}

MaxOf(v) == CHOOSE x \in {v[i] : i \in 1..Len(v)} :
              \A i \in 1..Len(v) : v[i] <= x

MinOf(v) == CHOOSE x \in {v[i] : i \in 1..Len(v)} :
              \A i \in 1..Len(v) : x <= v[i]

\* the object the constructor leaves: fDeconvKernelPolarity is not
\* initialised, pol is what it happens to hold
Constructed(pol) ==
  [fResponseLocked |-> FALSE,
   fFilterLocked |-> FALSE, fNorm |-> TRUE,
   fResponse |-> <<>>, fConvKernel |-> <<>>, fFilter |-> <<>>,
   fDeconvKernel |-> <<>>, fDeconvKernelPolarity |-> pol]

ConfigurationLocked == "Configuration locked."

\* how a call ends: it returns, or throws a cet::exception, leaving s
Returns(s) == [obj |-> s, thrown |-> "none", ub |-> FALSE]

Throws(s, what) == [obj |-> s, thrown |-> what, ub |-> FALSE]

\* the transform service works on vectors that are empty: it reads and
\* writes beyond them, and the vectors never show it
Overruns(s) == [obj |-> s, thrown |-> "none", ub |-> TRUE]

Reset(s) ==
  Returns([s EXCEPT !.fResponseLocked = FALSE, !.fFilterLocked = FALSE,
                    !.fResponse = <<>>, !.fConvKernel = <<>>,
                    !.fFilter = <<>>, !.fDeconvKernel = <<>>,
                    !.fDeconvKernelPolarity = 1])

Product(a, b) == [i \in 1..Len(a) |-> Times(a[i], b[i])]

\* AddResponseFunction without its test of the response lock
AddResponseFunctionUnlocked(s, resp, ResetResponse) ==
  IF Len(s.fConvKernel) = 0 \/ ResetResponse
  THEN Returns([s EXCEPT !.fResponse = Resize(resp, FFTSize),
                         !.fConvKernel = DoFFT(Resize(resp, FFTSize))])
  ELSE Returns([s EXCEPT
         !.fConvKernel = Product(s.fConvKernel,
                                 DoFFT(Resize(resp, FFTSize))),
         !.fResponse = DoInvFFT(Product(s.fConvKernel,
                                        DoFFT(Resize(resp, FFTSize))))])

AddResponseFunction(s, resp, ResetResponse) ==
  IF s.fResponseLocked THEN Throws(s, ConfigurationLocked)
  ELSE IF Len(s.fConvKernel) = 0 \/ ResetResponse
  THEN Returns([s EXCEPT !.fResponse = Resize(resp, FFTSize),
                         !.fConvKernel = DoFFT(Resize(resp, FFTSize))])
  ELSE IF (FFTSize \div 2) + 1 # Len(s.fConvKernel)
  THEN Throws([s EXCEPT !.fResponse = Resize(resp, FFTSize)],
              "inconsistent kernel size")
  ELSE Returns([s EXCEPT
         !.fConvKernel = Product(s.fConvKernel,
                                 DoFFT(Resize(resp, FFTSize))),
         !.fResponse = DoInvFFT(Product(s.fConvKernel,
                                        DoFFT(Resize(resp, FFTSize))))])

ShiftResponseTime(s, ticks) ==
  IF s.fResponseLocked THEN Throws(s, ConfigurationLocked)
  ELSE IF Len(s.fConvKernel) = 0 THEN Overruns(s)
  ELSE Returns([s EXCEPT
         !.fConvKernel = ShiftData(s.fConvKernel, ticks),
         !.fResponse = DoInvFFT(ShiftData(s.fConvKernel, ticks))])

\* peak is what PeakCorrelation(delta, fResponse) reports
SetPeakResponseTime(s, tick, peak) ==
  IF s.fResponseLocked THEN Throws(s, ConfigurationLocked)
  ELSE ShiftResponseTime(s, tick - peak)

AddFilterFunction(s, filt) ==
  IF s.fFilterLocked THEN Throws(s, ConfigurationLocked)
  ELSE IF Len(s.fFilter) = 0
  THEN Returns([s EXCEPT !.fFilter = Resize(filt, (FFTSize \div 2) + 1)])
  ELSE Returns([s EXCEPT !.fFilter =
         [i \in 1..Len(s.fFilter) |->
            IF i <= Len(filt) THEN Times(s.fFilter[i], filt[i]) ELSE 0]])

SetDeconvKernelPolarity(s, pol) ==
  IF pol # 1 /\ pol # -1
  THEN Throws(s, "DeconvKernelPolarity should be +1 or -1")
  ELSE Returns([s EXCEPT !.fDeconvKernelPolarity = pol])

LockResponse(s) ==
  IF s.fResponseLocked THEN Returns(s)
  ELSE IF Len(s.fResponse) = 0
  THEN Throws(s, "Response has not been configured.")
  ELSE IF Len(s.fResponse) # FFTSize
  THEN Throws(s, "inconsistent kernel size")
  ELSE IF 2 * (Len(s.fConvKernel) - 1) # FFTSize
  THEN Throws(s, "unexpected FFT size")
  ELSE Returns([s EXCEPT !.fResponseLocked = TRUE])

\* the latest coefficient of the convolution kernel above the cutoff
\* fMinConvKernelFrac * convMax: here, the latest one that is not zero
LatestValid(c, convComplex) == IF c # 0 THEN c ELSE convComplex

RECURSIVE Ratio(_, _, _, _, _)
Ratio(filter, conv, idx, convComplex, acc) ==
  IF idx > Len(filter) THEN acc
  ELSE Ratio(filter, conv, idx + 1, LatestValid(conv[idx], convComplex),
             Append(acc, Over(filter[idx],
                              LatestValid(conv[idx], convComplex))))

PeakResponse(s) ==
  IF s.fDeconvKernelPolarity > 0 THEN MaxOf(s.fResponse)
  ELSE -MinOf(s.fResponse)

Scaled(v, ratio) == [i \in 1..Len(v) |-> Times(v[i], ratio)]

\* the normalisation of the deconvolution kernel and the filter lock
Normalize(s) ==
  IF ~s.fNorm THEN Returns([s EXCEPT !.fFilterLocked = TRUE])
  ELSE IF PeakResponse(s) <= 0
  THEN Throws(s, "peak should always be positive")
  ELSE IF MaxOf(DoInvFFT(s.fFilter)) <= 0
  THEN Throws(s, "deconvolution peak should always be positive")
  ELSE Returns([s EXCEPT
         !.fDeconvKernel = Scaled(s.fDeconvKernel,
                                  Over(PeakResponse(s),
                                       MaxOf(DoInvFFT(s.fFilter)))),
         !.fFilterLocked = TRUE])

\* CalculateDeconvKernel once the response is locked
DeconvKernelOf(s) ==
  IF Len(s.fFilter) = 0
  THEN Throws(s, "Filter function has not been configured.")
  ELSE IF Len(s.fFilter) # Len(s.fConvKernel)
  THEN Throws(s, "inconsistent size")
  ELSE Normalize([s EXCEPT !.fDeconvKernel =
                    Ratio(s.fFilter, s.fConvKernel, 1, s.fConvKernel[1],
                          <<>>)])

CalculateDeconvKernel(s) ==
  IF s.fFilterLocked THEN Throws(s, ConfigurationLocked)
  ELSE IF LockResponse(s).thrown # "none" THEN LockResponse(s)
  ELSE DeconvKernelOf(LockResponse(s).obj)

NoShapingCall == [fn |-> "none", thrown |-> "none"]

(***************************************************************************)
(* The calls.  A caller holds a waveform in adc, calls one Compress        *)
(* overload on it and later Uncompress with the mode it compressed with    *)
(* and an output buffer of the original length; or it hands Uncompress a   *)
(* buffer of words as it stands.  A call that leaves the bounds of a       *)
(* vector either goes on with what the memory holds or is aborted.         *)
(***************************************************************************)
NoCall == [fn |-> "none", mode |-> kNone, thr |-> -1, nn |-> -1]

Init ==
  /\ W \in Waveforms
  /\ adc = W
  /\ uncompressed = <<>>
  /\ buf0 = <<>>
  /\ pc = "start"
  /\ call = NoCall
  /\ umode = "none"
  /\ status = "ok"
  /\ ub = FALSE
  /\ warned = FALSE
  /\ hlog = <<>>
  /\ hufftmp = <<>>
  /\ shaping = Constructed(1)
  /\ sscall = NoShapingCall

\* the call returns r
CompressReturns(r) ==
  /\ adc' = r.adc
  /\ pc' = "compressed"
  /\ status' = "ok"
  /\ ub' = r.ub

CompressAborts ==
  /\ adc' = adc
  /\ pc' = "aborted"
  /\ status' = "abort"
  /\ ub' = TRUE

\* one call c of a Compress overload: r0 is its result when the memory
\* outside the vectors holds zeros, rs its results over all such contents
CompressStep(c, r0, rs) ==
  /\ pc = "start"
  /\ \/ \E r \in (IF r0.ub THEN rs ELSE {r0}) : CompressReturns(r)
     \/ r0.ub /\ CompressAborts
  /\ call' = c
  /\ UNCHANGED <<W, uncompressed, buf0, umode, warned, hlog, hufftmp>>
  /\ UNCHANGED <<shaping, sscall>>

DoCompress ==
  \E m \in Modes :
    CompressStep([fn |-> "Compress", mode |-> m, thr |-> -1, nn |-> -1],
                 Compress(adc, m, o0),
                 {Compress(adc, m, o) : o \in Oracles})

DoCompressNN ==
  \E m \in Modes, nn \in NNs :
    CompressStep([fn |-> "CompressNN", mode |-> m, thr |-> -1, nn |-> nn],
                 CompressNN(adc, m, nn, o0),
                 {CompressNN(adc, m, nn, o) : o \in Oracles})

DoCompressThr ==
  \E m \in Modes, thr \in Thresholds :
    CompressStep([fn |-> "CompressThr", mode |-> m, thr |-> thr, nn |-> -1],
                 CompressThr(adc, m, thr, o0),
                 {CompressThr(adc, m, thr, o) : o \in Oracles})

DoCompressThrNN ==
  \E m \in Modes, thr \in Thresholds, nn \in NNs :
    CompressStep([fn |-> "CompressThrNN", mode |-> m, thr |-> thr, nn |-> nn],
                 CompressThrNN(adc, m, thr, nn, o0),
                 {CompressThrNN(adc, m, thr, nn, o) : o \in Oracles})

\* the caller's output buffers of the given sizes
OutBufs(sizes) == {[k \in 1..n |-> f] : n \in sizes, f \in Fill}

UncompressReturns(r) ==
  /\ uncompressed' = r.out
  /\ status' = IF r.throw THEN "throw" ELSE "ok"
  /\ pc' = "done"
  /\ ub' = (ub \/ r.ub)
  /\ warned' = r.warn
  /\ hlog' = r.log
  /\ hufftmp' = r.tmp

UncompressAborts(buf) ==
  /\ uncompressed' = buf
  /\ status' = "abort"
  /\ pc' = "aborted"
  /\ ub' = TRUE
  /\ UNCHANGED <<warned, hlog, hufftmp>>

UncompressStep(m, buf, r0, rs) ==
  /\ \/ \E r \in (IF r0.ub THEN rs ELSE {r0}) : UncompressReturns(r)
     \/ r0.ub /\ UncompressAborts(buf)
  /\ buf0' = buf
  /\ umode' = m
  /\ UNCHANGED <<W, adc, call>>
  /\ UNCHANGED <<shaping, sscall>>

DoUncompress ==
  /\ pc \in {"start", "compressed"}
  /\ \E m \in (IF pc = "start" THEN Modes ELSE {call.mode}),
        buf \in (IF pc = "start" THEN OutBufs(0..MaxOut)
                 ELSE OutBufs({Len(W)})) :
       UncompressStep(m, buf, Uncompress(adc, buf, m, o0),
                      {Uncompress(adc, buf, m, o) : o \in Oracles})

Next ==
  \/ DoCompress
  \/ DoCompressNN
  \/ DoCompressThr
  \/ DoCompressThrNN
  \/ DoUncompress

Spec == Init /\ [][Next]_vars

(***************************************************************************)
(* The calls on the SignalShaping object.  A caller may make any call at   *)
(* any time; a call that throws leaves the object as the code left it at   *)
(* the throw.  A call that has the transform service work on empty vectors *)
(* either returns or is aborted.                                           *)
(***************************************************************************)
codec == <<W, adc, uncompressed, buf0, pc, call, umode, status, ub, warned,
           hlog, hufftmp>>

ShapingInit ==
  /\ W = <<>>
  /\ adc = W
  /\ uncompressed = <<>>
  /\ buf0 = <<>>
  /\ pc = "start"
  /\ call = NoCall
  /\ umode = "none"
  /\ status = "ok"
  /\ ub = FALSE
  /\ warned = FALSE
  /\ hlog = <<>>
  /\ hufftmp = <<>>
  /\ shaping \in {Constructed(pol) : pol \in Polarities}
  /\ sscall = NoShapingCall

ShapingStep(fn, r) ==
  /\ \/ /\ shaping' = r.obj
        /\ sscall' = [fn |-> fn, thrown |-> r.thrown]
     \/ /\ r.ub
        /\ shaping' = shaping
        /\ sscall' = [fn |-> fn, thrown |-> "abort"]
  /\ UNCHANGED codec

DoReset == ShapingStep("Reset", Reset(shaping))

DoAddResponseFunction ==
  \E resp \in Inputs, ResetResponse \in BOOLEAN :
    ShapingStep("AddResponseFunction",
                AddResponseFunction(shaping, resp, ResetResponse))

DoShiftResponseTime ==
  \E ticks \in Ticks :
    ShapingStep("ShiftResponseTime", ShiftResponseTime(shaping, ticks))

DoSetPeakResponseTime ==
  \E tick \in Ticks, peak \in Peaks :
    ShapingStep("SetPeakResponseTime",
                SetPeakResponseTime(shaping, tick, peak))

DoAddFilterFunction ==
  \E filt \in Inputs :
    ShapingStep("AddFilterFunction", AddFilterFunction(shaping, filt))

DoSetDeconvKernelPolarity ==
  \E pol \in Polarities :
    ShapingStep("SetDeconvKernelPolarity",
                SetDeconvKernelPolarity(shaping, pol))

DoLockResponse == ShapingStep("LockResponse", LockResponse(shaping))

DoCalculateDeconvKernel ==
  ShapingStep("CalculateDeconvKernel", CalculateDeconvKernel(shaping))

ShapingNext ==
  \/ DoReset
  \/ DoAddResponseFunction
  \/ DoShiftResponseTime
  \/ DoSetPeakResponseTime
  \/ DoAddFilterFunction
  \/ DoSetDeconvKernelPolarity
  \/ DoLockResponse
  \/ DoCalculateDeconvKernel

ShapingSpec == ShapingInit /\ [][ShapingNext]_vars

(***************************************************************************)
(* Properties.                                                             *)
(***************************************************************************)
\* the zero-suppression threshold a Compress call works with
CallThr == IF call.thr = -1 THEN 5 ELSE call.thr

\* the call used ZeroSuppression(adc, zerothreshold)
PlainCall == call.fn \in {"Compress", "CompressThr"}

\* the call used ZeroSuppression(adc, zerothreshold, nearestneighbor)
MergedCall == call.fn \in {"CompressNN", "CompressThrNN"}

FourModes == {kNone, kHuffman, kZeroSuppression, kZeroHuffman}

\* a Compress call followed by Uncompress into a buffer of the original size
RoundTrip(m) ==
  /\ call.fn # "none"
  /\ call.mode = m
  /\ umode = m
  /\ Len(buf0) = Len(W)

Pulses == <<0, 0, 0, 6, 7, 0, 0, 0, 9, 0, 0>>

LatePulse == <<0, 0, 0, 0, 0, 0, 6, 5>>

\* C1: for every waveform W and every mode M of None, Huffman,
\* ZeroSuppression and ZeroHuffman, Uncompress of Compress of a copy of W,
\* into an output of the length of W, yields W element for element.  Stated
\* for the calls in which every access stays inside its vector.
C1_RoundTripAllModes ==
  (pc = "done" /\ ~ub /\ \E m \in FourModes : RoundTrip(m))
    => (status = "ok" /\ uncompressed = W)

\* C2: Huffman decode inverts Huffman encode: for every waveform W of length
\* N >= 1 with all samples of magnitude below 2^14, decoding the encoding of W
\* into a buffer of size N fills it with W, and the running value curADC is
\* W[k] right after output position k is written.
C2_HuffmanInverse ==
  (/\ pc = "done"
   /\ RoundTrip(kHuffman)
   /\ Len(W) >= 1
   /\ \A k \in 1..Len(W) : Abs(W[k]) < 16384)
    => /\ status = "ok"
       /\ uncompressed = W
       /\ Len(hlog) = Len(W)
       /\ \A k \in 1..Len(hlog) : hlog[k].pos = k - 1 /\ hlog[k].cur = W[k]

\* a Huffman round trip through literals of both signs and codes
C2_Witness ==
  /\ pc = "done"
  /\ RoundTrip(kHuffman)
  /\ W = <<0, -6, 1, 3, 3>>
  /\ adc = <<0, 16390, 1, -31488>>
  /\ uncompressed = W
  /\ ~ub

\* C3: in Uncompress with mode ZeroHuffman the zero un-suppression step works
\* on the words the Huffman decode step produced, so that the output is
\* ZeroUnsuppression(UncompressHuffman(compressed)).  Stated for the calls in
\* which no vector is left and the decoded words are a readable encoding.
C3_StepsComposed ==
  (/\ pc = "done"
   /\ umode = kZeroHuffman
   /\ status = "ok"
   /\ ~ub
   /\ ~ZeroUnsuppression(hufftmp, hufftmp, o0).ub
   /\ ~ZeroUnsuppression(hufftmp, hufftmp, o0).throw)
    => uncompressed = ZeroUnsuppression(hufftmp, hufftmp, o0).out

\* sample k (from 1) of w is above the threshold
IsActive(w, thr, k) == Abs(w[k]) > thr

\* the samples that open a block: active, and first or after an inactive one
Opens(w, thr) ==
  {k \in 1..Len(w) : IsActive(w, thr, k) /\ (k = 1 \/ ~IsActive(w, thr, k - 1))}

\* the last sample of the block opened at k: the first inactive sample after
\* it, or the last sample of the waveform
CloseOf(w, thr, k) ==
  IF \E m \in k..Len(w) : ~IsActive(w, thr, m)
  THEN CHOOSE m \in k..Len(w) :
         ~IsActive(w, thr, m) /\ \A q \in k..(m - 1) : IsActive(w, thr, q)
  ELSE Len(w)

\* the number of the block opened at k, counting from 1
BlockNo(w, thr, k) == Cardinality({m \in Opens(w, thr) : m <= k})

\* the block table of the encoding in adc is that of the working arrays sc
TableIs(sc) ==
  /\ Len(adc) >= 2 + 2 * sc.nblocks
  /\ adc[2] = sc.nblocks
  /\ \A j \in 1..sc.nblocks :
       adc[2 + j] = sc.blockbegin[j] /\ adc[2 + sc.nblocks + j] = sc.blocksize[j]

\* the scan of ZeroSuppression without merging records the blocks of w
ScanRecords(w, thr, sc) ==
  /\ sc.nblocks = Cardinality(Opens(w, thr))
  /\ \A k \in Opens(w, thr) :
       /\ sc.blockbegin[BlockNo(w, thr, k)] = k - 1
       /\ sc.blocksize[BlockNo(w, thr, k)] = CloseOf(w, thr, k) - k + 1

\* C4: ZeroSuppression without merging opens a block at the first sample with
\* abs(sample) > threshold (a sample equal to the threshold opens none) and
\* closes it at the first following sample with abs(sample) <= threshold,
\* which is the block's last sample; a block open at the last sample is
\* recorded.  The recorded start is the index of the opening sample and the
\* recorded length counts the samples from the opening to the closing one.
C4_BlocksOpenAndClose ==
  (pc = "compressed" /\ PlainCall /\ call.mode = kZeroSuppression)
    => /\ ScanRecords(W, CallThr, ZeroSuppressionScan(W, CallThr))
       /\ ~ub => TableIs(ZeroSuppressionScan(W, CallThr))

\* a block closed by a sample equal to the threshold, written in bounds
C4_Witness ==
  /\ pc = "compressed"
  /\ call.fn = "CompressThr"
  /\ call.mode = kZeroSuppression
  /\ call.thr = 5
  /\ W = LatePulse
  /\ adc = <<8, 1, 6, 2, 6, 5>>
  /\ ~ub

\* the number of consecutive active samples of w from sample k on
RunLength(w, thr, k) ==
  Cardinality({m \in k..Len(w) : \A q \in k..m : IsActive(w, thr, q)})

\* one block per maximal run of active samples, each recorded with the length
\* of its run plus closing, where closing is 1 if the sample that ends the
\* run is counted into the block and 0 if it is not
RunBlocks(w, thr, sc, closing) ==
  /\ sc.nblocks = Cardinality(Opens(w, thr))
  /\ \A k \in Opens(w, thr) :
       sc.blocksize[BlockNo(w, thr, k)] =
         RunLength(w, thr, k)
           + (IF k + RunLength(w, thr, k) <= Len(w) THEN closing ELSE 0)

\* Pulses went through ZeroSuppression(adc, 5)
PulsesSuppressed ==
  /\ PlainCall
  /\ call.mode = kZeroSuppression
  /\ CallThr = 5
  /\ W = Pulses

\* the un-suppressed output holds zeros at every index outside 3, 4 and 8
ZerosElsewhere ==
  /\ Len(uncompressed) = 11
  /\ \A p \in (0..10) \ {3, 4, 8} : uncompressed[p + 1] = 0

\* C5 as the claim has it: ZeroSuppression without merging records one block
\* per maximal run of above-threshold samples, of length the number of
\* above-threshold samples of the run; for W = [0,0,0,6,7,0,0,0,9,0,0] and
\* threshold 5 exactly two blocks, start 3 length 2 and start 8 length 1, and
\* zeros at every other index after ZeroUnsuppression.
C5_Original ==
  /\ (pc = "compressed" /\ PlainCall /\ call.mode = kZeroSuppression)
       => RunBlocks(W, CallThr, ZeroSuppressionScan(W, CallThr), 0)
  /\ (pc = "compressed" /\ PulsesSuppressed)
       => (adc[2] = 2 /\ adc[3] = 3 /\ adc[4] = 8 /\ adc[5] = 2 /\ adc[6] = 1)
  /\ (pc = "done" /\ PulsesSuppressed /\ umode = kZeroSuppression)
       => ZerosElsewhere

\* C5: ZeroSuppression without merging records one block per maximal run of
\* above-threshold samples, of length the number of above-threshold samples
\* of the run plus one for the sample at or below the threshold that closes
\* it, when the run ends before the last sample; for
\* W = [0,0,0,6,7,0,0,0,9,0,0] and threshold 5 exactly two blocks, start 3
\* length 3 and start 8 length 2, and zeros at every index other than 3, 4
\* and 8 after ZeroUnsuppression.
C5_Amended ==
  /\ (pc = "compressed" /\ PlainCall /\ call.mode = kZeroSuppression)
       => RunBlocks(W, CallThr, ZeroSuppressionScan(W, CallThr), 1)
  /\ (pc = "compressed" /\ PulsesSuppressed)
       => adc = <<11, 2, 3, 8, 3, 2, 6, 7, 0, 9, 0>>
  /\ (pc = "done" /\ PulsesSuppressed /\ umode = kZeroSuppression)
       => (ZerosElsewhere /\ uncompressed = W)

\* Pulses suppressed and restored into a buffer that held other values
C5_Witness ==
  /\ pc = "done"
  /\ PulsesSuppressed
  /\ umode = kZeroSuppression
  /\ adc = <<11, 2, 3, 8, 3, 2, 6, 7, 0, 9, 0>>
  /\ buf0 = [k \in 1..11 |-> 7]
  /\ uncompressed = Pulses

\* the sum of the first k block lengths of the encoding a with b blocks
RECURSIVE SumLens(_, _, _)
SumLens(a, b, k) == IF k = 0 THEN 0 ELSE SumLens(a, b, k - 1) + a[2 + b + k]

\* a is [N, B, B starts, B lengths, samples]: the blocks lie inside 0..N-1 in
\* ascending order without overlap, and there is one sample per block entry
WellFormed(a) ==
  /\ Len(a) >= 2
  /\ a[1] >= 0
  /\ a[2] >= 0
  /\ Len(a) >= 2 + 2 * a[2]
  /\ \A k \in 1..a[2] :
       /\ a[2 + k] >= 0
       /\ a[2 + a[2] + k] >= 0
       /\ a[2 + k] + a[2 + a[2] + k] <= a[1]
       /\ k > 1 => a[2 + k] >= a[1 + k] + a[1 + a[2] + k]
  /\ Len(a) = 2 + 2 * a[2] + SumLens(a, a[2], a[2])

\* block k of a covers index p
Covers(a, k, p) == a[2 + k] <= p /\ p < a[2 + k] + a[2 + a[2] + k]

\* the value the encoding a records for index p, 0 where no block covers it
RecordedAt(a, p) ==
  IF \E k \in 1..a[2] : Covers(a, k, p)
  THEN a[2 + 2 * a[2] + SumLens(a, a[2], (CHOOSE k \in 1..a[2] : Covers(a, k, p)) - 1)
         + (p - a[2 + (CHOOSE k \in 1..a[2] : Covers(a, k, p))]) + 1]
  ELSE 0

\* the encoding in adc has the layout of the encoding of W
EncodingOfW ==
  /\ WellFormed(adc)
  /\ adc[1] = Len(W)
  /\ \A p \in 0..(Len(W) - 1) :
       (\E k \in 1..adc[2] : Covers(adc, k, p)) => RecordedAt(adc, p) = W[p + 1]

\* C6: on return from either ZeroSuppression variant the buffer is
\* [N, B, B ascending block starts, B block lengths, samples], N the original
\* length, the samples of block k being W[start_k .. start_k+len_k-1], and
\* the buffer's length is 2 + 2B + the sum of the block lengths.
C6_Layout ==
  (pc = "compressed" /\ call.mode = kZeroSuppression) => EncodingOfW

\* C7: ZeroUnsuppression of a well-formed encoding [N, B, starts, lengths,
\* samples] gives an output of length N that holds, at start_k + j for each
\* block k and j < len_k, the next recorded sample in block and in-block
\* order, and 0 at every index no block covers; the encoding is not modified.
C7_Unsuppressed ==
  [][(pc' = "done" /\ umode' = kZeroSuppression /\ WellFormed(adc))
       => /\ adc' = adc
          /\ status' = "ok"
          /\ Len(uncompressed') = adc[1]
          /\ \A p \in 0..(adc[1] - 1) : uncompressed'[p + 1] = RecordedAt(adc, p)]_vars

\* two blocks restored into a buffer that held other values
C7_Witness ==
  /\ pc = "done"
  /\ umode = kZeroSuppression
  /\ WellFormed(adc)
  /\ adc[2] = 2
  /\ adc[5] > 0
  /\ adc[6] > 0
  /\ \E k \in 1..Len(buf0) : buf0[k] = 7
  /\ \E p \in 0..(adc[1] - 1) : RecordedAt(adc, p) = 0 /\ uncompressed[p + 1] = 0
  /\ status = "ok"

\* C8: ZeroSuppression with neighbor merging records a single block for two
\* active regions whose gap is no larger than NeighborDistance: for
\* W = [0,0,0,6,7,0,0,0,9,0,0], threshold 5 and NeighborDistance 3 the output
\* records exactly one block, which covers indices 3 through 8.
C8_PulsesMerged ==
  (/\ pc = "compressed"
   /\ MergedCall
   /\ call.mode = kZeroSuppression
   /\ CallThr = 5
   /\ call.nn = 3
   /\ W = Pulses)
    => /\ Len(adc) >= 4
       /\ adc[2] = 1
       /\ adc[3] <= 3
       /\ adc[3] + adc[4] >= 9

\* C9: UncompressHuffman, on meeting a coded word whose lower 15 bits are all
\* zero before the output buffer is full, reports an error to the caller and
\* does not skip the word and decode on.
C9_EmptyWordReported ==
  (pc = "done" /\ umode = kHuffman /\ warned) => status = "throw"

\* C10: Uncompress with a mode outside None, Huffman, ZeroSuppression and
\* ZeroHuffman ends in an error surfaced to the caller and leaves the output
\* buffer as it was before the call.
C10_UnknownModeThrows ==
  (pc = "done" /\ umode \notin FourModes)
    => (status = "throw" /\ uncompressed = buf0)

\* an unknown mode met with a buffer that holds values
C10_Witness ==
  /\ pc = "done"
  /\ umode = kOther
  /\ status = "throw"
  /\ Len(adc) > 0
  /\ buf0 = <<7, 7>>
  /\ uncompressed = <<7, 7>>

\* C11: Compress is the identity for mode None and for any mode value it
\* does not recognise: in each of the four overloads the waveform's length
\* and elements are unchanged on return, and no error is raised.
C11_IdentityModes ==
  (call.fn # "none" /\ call.mode \in {kNone, kOther} /\ umode = "none")
    => (pc = "compressed" /\ adc = W /\ status = "ok" /\ ~ub)

\* the four-argument overload called with a mode it does not name
C11_Witness ==
  /\ pc = "compressed"
  /\ call = [fn |-> "CompressThrNN", mode |-> kOther, thr |-> 3, nn |-> 1]
  /\ W = Pulses
  /\ adc = Pulses

\* C12: UncompressHuffman never writes past its output buffer: for a
\* non-empty word sequence and an output buffer of size M >= 1 every write
\* targets an index in 0..M-1, the buffer's size is unchanged, and decoding
\* stops without error once M samples are written, also in the middle of a
\* coded word or of a run of four.
C12_DecoderInBounds ==
  [][(/\ pc \in {"start", "compressed"}
      /\ pc' # pc
      /\ umode' = kHuffman
      /\ Len(adc) >= 1
      /\ Len(buf0') >= 1)
       => /\ pc' = "done"
          /\ status' = "ok"
          /\ ub' = ub
          /\ Len(uncompressed') = Len(buf0')
          /\ Len(hlog') <= Len(buf0')
          /\ \A k \in 1..Len(hlog') : hlog'[k].pos = k - 1]_vars

\* a run of four cut after its first sample: the word -6 starts with the
\* 1-bit code and the buffer holds two samples
C12_Witness ==
  /\ pc = "done"
  /\ umode = kHuffman
  /\ call.fn = "none"
  /\ adc = <<3, -6>>
  /\ buf0 = <<7, 7>>
  /\ uncompressed = <<3, 3>>
  /\ Len(hlog) = 2
  /\ ~ub

\* the number of elements of S up to x
Rank(S, x) == Cardinality({y \in S : y <= x})

\* the k-th element of S in ascending order
NthOf(S, k) == CHOOSE x \in S : Rank(S, x) = k

\* the samples i >= 1 that differ from their predecessor by more than 3
JumpsPlain(w) == {i \in 1..(Len(w) - 1) : Abs(w[i + 1] - w[i]) > 3}

\* the same with the difference as the short the encoder keeps it in
JumpsShort(w) == {i \in 1..(Len(w) - 1) : Abs(ToShort(w[i + 1] - w[i])) > 3}

\* v when positive, else abs(v) with bit 14 set, as a 16-bit word
ExpectedLiteral(v) ==
  IF v > 0 THEN v
  ELSE IF Abs(v) % 32768 >= 16384 THEN ToShort(Abs(v))
  ELSE Abs(v) + 16384

\* the positions from 1 on, short of the closing word, of the words of a
\* with bit 15 clear
LiteralPositions(a) ==
  {p \in 1..(Len(a) - 2) : ~Test(Bits16(a[p + 1]), 15)}

\* the literal of jump i sits at position p with the words the claim puts
\* before it
LiteralPlaced(w, a, J, i, p) ==
  /\ a[p + 1] = ExpectedLiteral(w[i + 1])
  /\ i = 1 => p = 1
  /\ (i >= 2 /\ i - 1 \in J) => p - 1 \in LiteralPositions(a)
  /\ (i >= 2 /\ i - 1 \notin J) => (p >= 2 /\ p - 1 \notin LiteralPositions(a))

\* word 0 is the first sample, and the words with bit 15 clear are the
\* literals of the jumps J, one each and in order
LiteralsAre(w, a, J) ==
  /\ Len(a) >= 2
  /\ a[1] = w[1]
  /\ Cardinality(LiteralPositions(a)) = Cardinality(J)
  /\ \A i \in J :
       LiteralPlaced(w, a, J, i, NthOf(LiteralPositions(a), Rank(J, i)))

\* a waveform went through CompressHuffman alone and every literal written
\* has bit 15 clear
HuffmanCoded ==
  /\ pc = "compressed"
  /\ call.mode = kHuffman
  /\ Len(W) >= 1
  /\ \A k \in 2..Len(W) : W[k] # -32768

HuffmanCall ==
  /\ call.fn # "none"
  /\ call.mode = kHuffman
  /\ umode = "none"
  /\ Len(W) >= 1

\* every sample of w is the first one
Constant(w) == \A k \in 1..Len(w) : w[k] = w[1]

\* the bits of n 2-bit codes written from bit `from` downwards
RECURSIVE TwoBitCodes(_, _)
TwoBitCodes(from, n) ==
  IF n = 0 THEN 0 ELSE 2^(from - 2) + TwoBitCodes(from - 2, n - 1)

\* the coded word of n zero differences, n <= 6: a 1-bit code for the first
\* four when there are four, and a 2-bit code for each of the others
RunWord(n) ==
  ToShort(32768 + (IF n >= 4 THEN 2^14 + TwoBitCodes(14, n - 4)
                   ELSE TwoBitCodes(15, n)))

\* C14: a zero difference at i is encoded with the 1-bit code, consuming
\* differences i..i+3, exactly when differences i+1, i+2 and i+3 exist within
\* the waveform and are zero, and with the 2-bit code, consuming one,
\* otherwise; the encoder reads no difference at an index >= N for any
\* N >= 1; 6 identical values after the first give one 1-bit code and two
\* 2-bit codes and decode to the same run.  The coding is stated for the
\* constant waveforms of up to 7 samples.
C14_ZeroRuns ==
  /\ HuffmanCall => ~CompressHuffman(W, o0).rd
  /\ (HuffmanCall /\ pc = "compressed" /\ Constant(W) /\ Len(W) \in 2..7)
       => adc = <<W[1], RunWord(Len(W) - 1)>>
  /\ (pc = "done" /\ RoundTrip(kHuffman) /\ W = <<4, 4, 4, 4, 4, 4, 4>>)
       => (adc = <<4, -11264>> /\ uncompressed = W)

\* a Compress call that zero-suppressed the waveform was made
SuppressCall ==
  /\ call.fn # "none"
  /\ call.mode \in {kZeroSuppression, kZeroHuffman}
  /\ umode = "none"

\* the working arrays sc of a scan of w: no access beyond blockbegin and
\* blocksize, and no more than floor(N/2)+1 blocks counted
BlocksBounded(w, sc) == ~sc.ub /\ sc.nblocks <= Len(w) \div 2 + 1

\* C15: in both ZeroSuppression variants (NeighborDistance >= 0 for the
\* merging one) the block counter never exceeds floor(N/2)+1 and every index
\* used on the blockbegin and blocksize working arrays is below
\* floor(N/2)+1, also for waveforms that alternate around the threshold.
C15_BlockCountBound ==
  /\ (SuppressCall /\ PlainCall)
       => BlocksBounded(W, ZeroSuppressionScan(W, CallThr))
  /\ (SuppressCall /\ MergedCall)
       => \A o \in Oracles :
            BlocksBounded(W, ZeroSuppressionNNScan(W, CallThr, call.nn, o))

\* an alternating waveform of 5 samples with floor(5/2)+1 blocks
C15_Witness ==
  /\ pc = "compressed"
  /\ call = [fn |-> "CompressThr", mode |-> kZeroSuppression, thr |-> 3,
             nn |-> -1]
  /\ W = <<-6, 0, -6, 0, -6>>
  /\ ZeroSuppressionScan(W, 3).nblocks = 3
  /\ adc[2] = 3

\* sample i (from 0) of w is above the threshold
Above(w, thr, i) == Abs(w[i + 1]) > thr

\* the look-ahead of line 211 runs at sample i: the last active sample is
\* nn + 1 samples back and every sample since is at or below the threshold
LooksAheadAt(w, thr, nn, i) ==
  /\ i - nn - 1 >= 0
  /\ Above(w, thr, i - nn - 1)
  /\ \A q \in (i - nn)..i : ~Above(w, thr, q)

\* some look-ahead reads adc at an index >= N: it runs at the last sample,
\* or at the one before it with the last sample above the threshold
LookAheadLeaves(w, thr, nn) ==
  \/ Len(w) >= 1 /\ LooksAheadAt(w, thr, nn, Len(w) - 1)
  \/ /\ Len(w) >= 2
     /\ LooksAheadAt(w, thr, nn, Len(w) - 2)
     /\ Above(w, thr, Len(w) - 1)

\* C16: in ZeroSuppression with merging the look-ahead that closes a block
\* is not bounds checked: with a block open, sample i at or below the
\* threshold and NeighborDistance such samples counted since the last active
\* one, the code reads adc[i+1] (and adc[i+2] when adc[i+1] is above the
\* threshold) whatever i is, so it reads an index >= N for the waveforms
\* whose open block reaches the last one or two samples.
C16_LookAheadUnchecked ==
  (SuppressCall /\ MergedCall)
    => \A o \in Oracles :
         ZeroSuppressionNNScan(W, CallThr, call.nn, o).la
           = LookAheadLeaves(W, CallThr, call.nn)

\* the look-ahead runs at the last sample and reads adc[2] of 2 samples
C16_Witness ==
  /\ pc = "compressed"
  /\ call = [fn |-> "CompressThrNN", mode |-> kZeroSuppression, thr |-> 5,
             nn |-> 0]
  /\ W = <<-6, 0>>
  /\ ZeroSuppressionNNScan(W, 5, 0, o0).la
  /\ ub

\* a waveform went through ZeroSuppression with merging alone
MergedSuppressed ==
  /\ pc = "compressed"
  /\ MergedCall
  /\ call.mode = kZeroSuppression

\* the samples between block k and block k+1 of the encoding a
Gap(a, k) == a[3 + k] - (a[2 + k] + a[2 + a[2] + k])

\* the block table of a: ascending starts, no overlap, blocks inside
\* 0..N-1, and at least `least` samples between consecutive blocks
BlocksApart(a, n, least) ==
  /\ Len(a) >= 2
  /\ a[2] >= 0
  /\ Len(a) >= 2 + 2 * a[2]
  /\ \A k \in 1..a[2] : a[2 + k] >= 0 /\ a[2 + k] + a[2 + a[2] + k] <= n
  /\ \A k \in 1..(a[2] - 1) :
       /\ a[2 + k] < a[3 + k]
       /\ Gap(a, k) >= 0
       /\ Gap(a, k) >= least

TwoPulses == <<6, 0, 0, 0, 0, 0, 0, 0, 0, 6, 0, 0, 0, 0, 0>>

\* C17 as the claim has it: in the output of ZeroSuppression with merging
\* the recorded blocks have strictly ascending starts, do not overlap, lie
\* within 0..N-1, and consecutive recorded blocks are separated by more than
\* NeighborDistance samples.
C17_Original == MergedSuppressed => BlocksApart(adc, Len(W), call.nn + 1)

\* C17: the same with consecutive recorded blocks separated by at least 2
\* samples, whatever NeighborDistance is.
C17_Amended == MergedSuppressed => BlocksApart(adc, Len(W), 2)

\* two recorded blocks, 2 samples apart with NeighborDistance 3
C17_Witness ==
  /\ MergedSuppressed
  /\ call.nn = 3
  /\ W = TwoPulses
  /\ adc[2] = 2
  /\ Gap(adc, 1) = 2
  /\ ~ub

\* sample i (from 0) lies inside a block of the encoding a
Recorded(a, i) == \E k \in 1..a[2] : Covers(a, k, i)

\* C18: no active sample is lost by ZeroSuppression with merging: for every
\* waveform, threshold and NeighborDistance >= 0 every index i with
\* abs(W[i]) > threshold lies inside a recorded block, also when its block is
\* still open at the last sample, and ZeroUnsuppression of the result has
\* W[i] at every such index.
C18_ActiveKept ==
  /\ MergedSuppressed
       => /\ Len(adc) >= 2
          /\ Len(adc) >= 2 + 2 * adc[2]
          /\ \A i \in 0..(Len(W) - 1) : Above(W, CallThr, i) => Recorded(adc, i)
  /\ (pc = "done" /\ MergedCall /\ RoundTrip(kZeroSuppression))
       => /\ Len(uncompressed) = Len(W)
          /\ \A i \in 0..(Len(W) - 1) :
               Above(W, CallThr, i) => uncompressed[i + 1] = W[i + 1]

\* C19: CompressHuffman only shrinks the buffer: for every waveform of
\* length N >= 1 at most N words are produced, every write before the final
\* resize targets an index in 0..N-1 and the final resize does not enlarge
\* the buffer, also when every sample after the first is a literal and when
\* N = 1.  The reads of C14 apart, the call then returns without an access
\* beyond adc.
C19_EncoderShrinks ==
  /\ (HuffmanCall /\ pc = "compressed") => Len(adc) <= Len(W)
  /\ (HuffmanCall /\ ~CompressHuffman(W, o0).rd)
       => (pc = "compressed" /\ ~ub)

\* C20: ZeroSuppression without merging writes its encoding in place within
\* the waveform buffer: for every waveform of length N (N = 0, N = 1 and
\* alternating waveforms included) every write of the header, the block
\* starts, the block lengths and the samples before the final resize targets
\* an index in 0..N-1.
C20_WritesInPlace ==
  /\ (SuppressCall /\ PlainCall) => ~ZeroSuppression(W, CallThr).ub
  /\ (SuppressCall /\ PlainCall /\ call.mode = kZeroSuppression)
       => (pc = "compressed" /\ ~ub)

\* the calls that change the response and the convolution kernel
ResponseSetters ==
  {"AddResponseFunction", "ShiftResponseTime", "SetPeakResponseTime"}

\* the calls that change the filter and the deconvolution kernel
FilterSetters == {"AddFilterFunction", "CalculateDeconvKernel"}

\* the call just made returned without throwing
Succeeded(fn) == sscall'.fn = fn /\ sscall'.thrown = "none"

\* the call just made threw "Configuration locked."
Refused == sscall'.thrown = ConfigurationLocked

\* C21: the configuration locks of SignalShaping.  A LockResponse that
\* returns leaves the response locked, a CalculateDeconvKernel that returns
\* leaves the response and the filter locked, and the filter lock is set by
\* nothing else.  While the response is locked, every AddResponseFunction,
\* ShiftResponseTime and SetPeakResponseTime throws "Configuration locked."
\* and leaves fResponse and fConvKernel as they were; while the filter is
\* locked, every AddFilterFunction and CalculateDeconvKernel throws the same
\* and leaves fFilter and fDeconvKernel as they were.  A lock that is set
\* stays set over every call but Reset, and Reset clears both.
C21_LocksHold ==
  [][/\ Succeeded("LockResponse") => shaping'.fResponseLocked
     /\ Succeeded("CalculateDeconvKernel")
          => (shaping'.fResponseLocked /\ shaping'.fFilterLocked)
     /\ (~shaping.fFilterLocked /\ shaping'.fFilterLocked)
          => Succeeded("CalculateDeconvKernel")
     /\ (shaping.fResponseLocked /\ sscall'.fn \in ResponseSetters)
          => /\ Refused
             /\ shaping'.fResponse = shaping.fResponse
             /\ shaping'.fConvKernel = shaping.fConvKernel
     /\ (shaping.fFilterLocked /\ sscall'.fn \in FilterSetters)
          => /\ Refused
             /\ shaping'.fFilter = shaping.fFilter
             /\ shaping'.fDeconvKernel = shaping.fDeconvKernel
     /\ (shaping.fResponseLocked /\ sscall'.fn # "Reset")
          => shaping'.fResponseLocked
     /\ (shaping.fFilterLocked /\ sscall'.fn # "Reset")
          => shaping'.fFilterLocked
     /\ sscall'.fn = "Reset"
          => (~shaping'.fResponseLocked /\ ~shaping'.fFilterLocked)]_vars

\* a response function refused after CalculateDeconvKernel locked a
\* response and a filter that are not zero
C21_Witness ==
  /\ shaping.fResponseLocked
  /\ shaping.fFilterLocked
  /\ sscall = [fn |-> "AddResponseFunction", thrown |-> ConfigurationLocked]
  /\ shaping.fResponse = <<1, 0>>
  /\ shaping.fConvKernel = <<1, 1>>
  /\ shaping.fFilter = <<1, -1>>
  /\ shaping.fDeconvKernel # <<0, 0>>

====
